---- MODULE Spec2Model ----
(***************************************************************************)
(* Batched concurrent transfer engine of app/pi_worker.py and the          *)
(* start/stop loop controller of app/main.py.                              *)
(*                                                                         *)
(* Amounts are integers in units of 10^-7 (the precision of round(.., 7)). *)
(* One asyncio event loop runs everything: a handler or task runs without  *)
(* interruption from one await to the next, so each action below is one    *)
(* such step. The children of a gather are queued one behind the other, so *)
(* their first steps follow each other with nothing in between.            *)
(***************************************************************************)
EXTENDS Integers, Sequences, FiniteSets, TLC

\* ------------------------------------------------------------- bounds
MaxSeeds == 7
MaxFaults == 1
MaxSessions == 2
MaxLoopSeeds == 2
MaxTenths == 20
MaxBatchSeeds == 14
MaxSmallUnits == 60

\* ------------------------------------------------- program constants
batch_size == 6
Pi == 10000000
estimated_fee == 100
MINIMUM_BALANCE == 10000000
FEE_PERCENT_NUM == 1
FEE_PERCENT_DEN == 100

Min(a, b) == IF a < b THEN a ELSE b

\* ------------------------------------------------------ Python floats
\* amount, the balances and the fee are Python floats (IEEE 754 binary64).  A
\* float is held here as its exact binary expansion in fixed point: a sequence
\* of Limbs digits in base 2^LimbBits, most significant first, the first of
\* them the integer part.  A float has at most Mantissa bits from its leading
\* 1 on.
LimbBits == 14

Base == 16384

FracLimbs == 10

Limbs == FracLimbs + 1

Bits == Limbs * LimbBits

Mantissa == 53

\* the digits d[1], d[2], ... as an explicit sequence, each computed once
Digits(d) == d \o <<>>

Zero == Digits([l \in 1..Limbs |-> 0])

RECURSIVE Pow2(_)
Pow2(n) == IF n = 0 THEN 1 ELSE 2 * Pow2(n - 1)

HalfBase == 128

\* the next LimbBits binary places of r / den (r < den) as one digit, taken
\* in two halves, and what is left of r
Places(r, den) ==
    LET mid == (r * HalfBase) % den
    IN  [limb |-> ((r * HalfBase) \div den) * HalfBase + (mid * HalfBase) \div den,
         rest |-> (mid * HalfBase) % den]

RECURSIVE FracPart(_, _, _)
\* the first n digits of r / den after the point
FracPart(r, den, n) ==
    IF n = 0 THEN <<>>
    ELSE <<Places(r, den).limb>> \o FracPart(Places(r, den).rest, den, n - 1)

RECURSIVE FracRest(_, _, _)
\* what is left of r / den after its first n digits
FracRest(r, den, n) ==
    IF n = 0 THEN r ELSE FracRest(Places(r, den).rest, den, n - 1)

\* the carry into digit l of x + y: some lower digit pair overflows and every
\* pair between is full
CarryInto(x, y, l) ==
    IF \E m \in (l + 1)..Len(x) :
            /\ x[m] + y[m] >= Base
            /\ \A k \in (l + 1)..(m - 1) : x[k] + y[k] = Base - 1
    THEN 1 ELSE 0

\* x + y, exactly
AddBits(x, y) ==
    Digits([l \in 1..Len(x) |-> (x[l] + y[l] + CarryInto(x, y, l)) % Base])

\* the borrow from digit l of x - y
BorrowFrom(x, y, l) ==
    IF \E m \in (l + 1)..Len(x) :
            /\ x[m] < y[m]
            /\ \A k \in (l + 1)..(m - 1) : x[k] = y[k]
    THEN 1 ELSE 0

\* x - y, exactly, for x >= y
SubBits(x, y) ==
    Digits([l \in 1..Len(x) |-> (x[l] - y[l] - BorrowFrom(x, y, l) + Base) % Base])

\* x times the digit d, one digit longer: the low halves of the digit
\* products plus their high halves one place up
MulRow(x, d) ==
    AddBits(<<0>> \o [l \in 1..Len(x) |-> (x[l] * d) % Base],
            [l \in 1..Len(x) |-> (x[l] * d) \div Base] \o <<0>>)

\* a row of the long multiplication among the 2 * Limbs digits of the
\* product, moved up by shift digits
WideOf(row, shift) ==
    Digits([k \in 1..(2 * Limbs) |->
                IF k - (Limbs - 1 - shift) \in 1..Len(row)
                THEN row[k - (Limbs - 1 - shift)] ELSE 0])

RECURSIVE MulFrom(_, _, _)
\* x times the digits 1..j of y, as 2 * Limbs digits of which 2 * FracLimbs
\* are after the point
MulFrom(x, y, j) ==
    IF j = 0 THEN Zero \o Zero
    ELSE AddBits(MulFrom(x, y, j - 1), WideOf(MulRow(x, y[j]), Limbs - j))

\* the bit at place p, place 1 the most significant
BitAt(x, p) ==
    (x[(p - 1) \div LimbBits + 1] \div Pow2(LimbBits - 1 - ((p - 1) % LimbBits))) % 2

Lead(x) == CHOOSE p \in 1..Bits : BitAt(x, p) = 1 /\ \A m \in 1..(p - 1) : BitAt(x, m) = 0

UnitAt(p) ==
    Digits([l \in 1..Limbs |->
                IF l = (p - 1) \div LimbBits + 1 THEN Pow2(l * LimbBits - p) ELSE 0])

\* x with the bits after place last cleared
KeepTo(x, last) ==
    Digits([l \in 1..Limbs |->
                IF l * LimbBits <= last THEN x[l]
                ELSE IF (l - 1) * LimbBits >= last THEN 0
                ELSE x[l] - (x[l] % Pow2(l * LimbBits - last))])

\* The float nearest to the exact value x (plus a nonzero rest below the last
\* bit when inexact), ties to the even mantissa.
RoundToFloat(x, inexact) ==
    IF x = Zero THEN x
    ELSE LET last == Lead(x) + Mantissa - 1
         IN  IF last >= Bits THEN x
             ELSE LET rest == inexact \/ \E p \in (last + 2)..Bits : BitAt(x, p) = 1
                      up == BitAt(x, last + 1) = 1 /\ (rest \/ BitAt(x, last) = 1)
                  IN  IF up THEN AddBits(KeepTo(x, last), UnitAt(last))
                      ELSE KeepTo(x, last)

\* the float nearest to num / den
FloatOf(num, den) ==
    RoundToFloat(<<num \div den>> \o FracPart(num % den, den, FracLimbs),
                 FracRest(num % den, den, FracLimbs) # 0)

\* float("d.ddddddd"), the decimal given as its count of units of 10^-7
float(units) == FloatOf(units, Pi)

FAdd(x, y) == RoundToFloat(AddBits(x, y), FALSE)

FSub(x, y) == RoundToFloat(SubBits(x, y), FALSE)

FMul(x, y) ==
    LET w == MulFrom(x, y, Limbs)
    IN  RoundToFloat(SubSeq(w, 2, Limbs + 1),
                     \E k \in (Limbs + 2)..(2 * Limbs) : w[k] # 0)

FLess(x, y) == \E l \in 1..Limbs : x[l] < y[l] /\ \A m \in 1..(l - 1) : x[m] = y[m]

\* round(x, 7) as a count of units of 10^-7: x * 10^7 (= x * 2500 * 4000) to
\* the nearest integer, ties to even
round7(x) ==
    LET t == MulRow(MulRow(x, 2500), 4000)
        whole == (t[1] * Base + t[2]) * Base + t[3]
        half == t[4] \div (Base \div 2)
        rest == t[4] % (Base \div 2) # 0 \/ \E k \in 5..Len(t) : t[k] # 0
    IN  IF half = 1 /\ (rest \/ whole % 2 = 1) THEN whole + 1 ELSE whole

FEE_PERCENT == FloatOf(FEE_PERCENT_NUM, FEE_PERCENT_DEN)


\* ---------------------------------------------------- requests (inputs)
SeedVals == {"a", "poor", "ghost", "bad"}

Amounts == {2 * Pi, 10 * Pi}

\* the list x, y, x, y, ... of length n
Alternate(x, y, n) == [k \in 1..n |-> IF k % 2 = 1 THEN x ELSE y]

\* Seed lists of every length up to MaxSeeds, of one seed repeated (x = y) or
\* of two seeds in turn.
SeedLists == {Alternate(x, y, n) : x \in SeedVals, y \in SeedVals, n \in 0..MaxSeeds}

LoopSeedLists == {s \in SeedLists : Len(s) \in 1..MaxLoopSeeds}

\* the amount of the looping sessions
LoopAmounts == {10 * Pi}

\* ------------------------------------------------------ key derivation
NoPk == <<>>

ValidSeed(seed) == seed # "bad"

PublicKey(seed) ==
    CASE seed = "a" -> <<"G", "A", "7", "Q", "2", "K">>
      [] seed = "poor" -> <<"G", "P", "3", "M", "5", "T">>
      [] seed = "ghost" -> <<"G", "H", "4", "Z", "6", "R">>
      [] OTHER -> NoPk

derive_keypair(seed) ==
    IF ValidSeed(seed)
    THEN [raised |-> FALSE, public_key |-> PublicKey(seed)]
    ELSE [raised |-> TRUE, public_key |-> NoPk]

Prefix5(pubkey) == SubSeq(pubkey, 1, Min(5, Len(pubkey)))

\* ------------------------------------------------- the remote ledger
LedgerBalance(pk) ==
    CASE pk = PublicKey("a") -> 100 * Pi
      [] pk = PublicKey("poor") -> 5 * Pi
      [] OTHER -> 0

AccountExists(pk) == pk \in {PublicKey("a"), PublicKey("poor")}

\* Replies the balance query can produce; a transport error is possible
\* while the fault budget lasts.
BalanceReplies(pk, budget) ==
    (IF AccountExists(pk)
     THEN {[kind |-> "ok", balance |-> LedgerBalance(pk)]}
     ELSE {[kind |-> "not_found", balance |-> 0]})
    \cup (IF budget > 0 THEN {[kind |-> "error", balance |-> 0]} ELSE {})

\* load_account and fetch_base_fee answer, or one of them raises: an exception
\* with a message, or one whose str() is empty (Exception(), TimeoutError())
BuildReplies(budget) ==
    {"ok"} \cup (IF budget > 0 THEN {"error", "error_no_message"} ELSE {})

OkResponse == [kind |-> "reply", status |-> 200, parseable |-> TRUE, has_hash |-> TRUE]

BadResponses ==
    {[kind |-> "reply", status |-> 200, parseable |-> TRUE, has_hash |-> FALSE],
     [kind |-> "reply", status |-> 400, parseable |-> TRUE, has_hash |-> FALSE],
     [kind |-> "reply", status |-> 200, parseable |-> FALSE, has_hash |-> FALSE],
     [kind |-> "transport_error", status |-> 0, parseable |-> FALSE, has_hash |-> FALSE]}

SubmitResponses(budget) == {OkResponse} \cup (IF budget > 0 THEN BadResponses ELSE {})

\* ------------------------------------------- create_signed_transaction
NoXdr == <<>>

NoErr == "None"

Triple(pk, xdr, err) == [filled |-> TRUE, pk |-> pk, xdr |-> xdr, err |-> err]

PendingTriple == [filled |-> FALSE, pk |-> NoPk, xdr |-> NoXdr, err |-> NoErr]

\* amount - amount * FEE_PERCENT computed and rounded in floats, as a count of
\* units of 10^-7
send_amount(amt) ==
    round7(FSub(float(amt), FMul(float(amt), FEE_PERCENT)))

\* line 33, in floats: native_balance < amount + estimated_fee + MINIMUM_BALANCE
Insufficient(native_balance, amt) ==
    FLess(float(native_balance),
          FAdd(FAdd(float(amt), float(estimated_fee)), float(MINIMUM_BALANCE)))

\* The balances and amounts that occur in the runs; what the two float
\* computations give for them is computed once.
RunBalances == {LedgerBalance(PublicKey(seed)) : seed \in SeedVals}

RunAmounts == Amounts \cup LoopAmounts

\* the function f as an explicit table, each of its values computed once
Table(f) == f @@ <<>>

KnownInsufficient ==
    Table([q \in RunBalances \X RunAmounts |-> Insufficient(q[1], q[2])])

KnownSendAmount == Table([a \in RunAmounts |-> send_amount(a)])

InsufficientBalance(native_balance, amt) ==
    IF <<native_balance, amt>> \in DOMAIN KnownInsufficient
    THEN KnownInsufficient[<<native_balance, amt>>]
    ELSE Insufficient(native_balance, amt)

SendAmount(amt) ==
    IF amt \in DOMAIN KnownSendAmount THEN KnownSendAmount[amt]
    ELSE send_amount(amt)

\* The balance gate: the terminal failure it returns, or NoErr to go on.
BalanceGate(reply, amount) ==
    CASE reply.kind = "not_found" -> "Account not found"
      [] reply.kind = "error" -> "Error checking balance"
      [] reply.kind = "ok" /\ InsufficientBalance(reply.balance, amount)
            -> "Insufficient balance"
      [] OTHER -> NoErr

\* line 55: the error of a failed build is str(e), which may be empty
BuildResult(pk, amount, reply) ==
    CASE reply = "ok" -> Triple(pk, <<pk, SendAmount(amount)>>, NoErr)
      [] reply = "error" -> Triple(pk, NoXdr, "build error")
      [] OTHER -> Triple(pk, NoXdr, "")

\* --------------------------------------------------- submit_transaction
submit_transaction(resp) ==
    CASE resp.kind = "transport_error" -> "HTTP Error"
      [] ~resp.parseable -> "Invalid JSON response"
      [] resp.status = 200 /\ resp.has_hash -> "Success: hash"
      [] resp.status = 200 -> "Success: incomplete response"
      [] OTHER -> "Failed: result_codes"

\* the message says success: it begins with "Success"
IsSuccessMessage(msg) == msg \in {"Success: hash", "Success: incomplete response"}

\* Every shape of answer the POST can have.
Responses ==
    [kind : {"reply", "transport_error"}, status : {200, 400, 504},
     parseable : BOOLEAN, has_hash : BOOLEAN]

\* ---------------------------------------------------------- process_batch
FirstPending(collected) ==
    CHOOSE m \in 1..Len(collected) :
        ~collected[m].filled /\ \A m2 \in 1..(m - 1) : collected[m2].filled

\* Variant: results collected in the order the children finish.
GatherPutByCompletion(collected, j, r) ==
    [collected EXCEPT ![FirstPending(collected)] = r]

\* gather() hands back the children's results in the order of the children.
GatherPut(collected, j, r) == [collected EXCEPT ![j] = r]

\* Variant: the first gather returns as soon as one pipeline has returned.
AnyFilled(collected) == \E j \in 1..Len(collected) : collected[j].filled

\* line 80: the first gather returns when every phase-1 task has returned
AllFilled(collected) == \A j \in 1..Len(collected) : collected[j].filled

\* Variant: the second gather returns as soon as one submission has returned.
AnySubmitted(tasks2) == \E j \in 1..Len(tasks2) : tasks2[j] = "done"

\* line 83: the second gather returns when every phase-2 task has returned
AllSubmitted(tasks2) == \A j \in 1..Len(tasks2) : tasks2[j] = "done"

\* line 82: submit when there is an xdr, otherwise sleep(0)
SubmitTaskKind(xdr) == IF xdr # NoXdr THEN "submitting" ELSE "sleeping"

ErrorResult(pk, err) == [tag |-> "Error", pk5 |-> Prefix5(pk), n |-> 0, msg |-> err]

SuccessResult(pk, submission) ==
    [tag |-> "Success", pk5 |-> Prefix5(pk), n |-> 0, msg |-> submission]

\* line 87: `if err:`, false for None and for the empty string
Truthy(err) == err # NoErr /\ err # ""

MergeResults(signed, submitted) ==
    [j \in 1..Len(signed) |->
        IF Truthy(signed[j].err)
        THEN ErrorResult(signed[j].pk, signed[j].err)
        ELSE SuccessResult(signed[j].pk, submitted[j])]

\* ------------------------------------------------------ process_all_seeds
\* Variant: the batch is tagged with its 0-based index.
BatchNumberZeroBased(off) == off \div batch_size

BatchNumber(off) == off \div batch_size + 1

BatchFailed(off) ==
    <<[tag |-> "Batch failed", pk5 |-> NoPk, n |-> BatchNumber(off), msg |-> "invalid seed"]>>

\* Variant: no except clause, the error leaves process_all_seeds.
PropagatesBatchError(off) == FALSE

\* the except clause around process_batch
CatchesBatchError(off) == TRUE

\* line 102: process_batch is awaited, the for loop stays at this batch
AfterFanOut(off) == [pc |-> "phase1", i |-> off]

\* Variant: the for loop steps one short of a batch, so batches overlap.
NextOffsetOverlaps(off) == off + batch_size - 1

NextOffset(off) == off + batch_size

\* Variant: the slice has no upper end, seeds[i:].
SliceToEnd(off, n) == n

\* line 100: where seeds[i:i + batch_size] ends in a list of n seeds
SliceEnd(off, n) == Min(off + batch_size, n)

\* seeds[i:i + batch_size]
Slice(s, off) == SubSeq(s, off + 1, Min(off + batch_size, Len(s)))

RECURSIVE BatchesFrom(_, _)
\* the batches of `for i in range(off, len(seeds), batch_size)`, in order
BatchesFrom(s, off) ==
    IF off >= Len(s) THEN <<>> ELSE <<Slice(s, off)>> \o BatchesFrom(s, NextOffset(off))

VARIABLES
    seeds,           \* the request's seed list
    amount,          \* the request's amount
    pc,              \* position of process_all_seeds
    i,               \* the for loop's offset
    p1,              \* phase-1 task of every seed of the run, by seed index
    signed_results,  \* what gather collects for the current batch
    p2,              \* phase-2 task status, by position in the current batch
    submit_results,  \* what the second gather collects
    results,         \* the run's result list
    faults,          \* transient faults the environment produced in this run
    submit_calls,    \* POSTs issued, by seed index
    inverted,        \* a task of the current batch finished before an earlier one
    appended,        \* batch numbers and lengths appended to results, in order
    delays,          \* inter-batch sleeps of the run that have returned
    loop_task,       \* main.py global: 0 for None, else the index of a task in tasks
    stop_event,      \* main.py global: 0 for None, else the index of an event in events
    tasks,           \* every loop task created so far: "running", "done" or "failed"
    events,          \* every asyncio.Event created so far: is it set
    waiters,         \* tasks that a suspended stop_loop awaits
    last_reply,      \* the message of the last start/stop response
    stopped,         \* tasks for which a stop_loop that addressed them has returned
    prev_failed,     \* the session's last finished round reported a failure
    stop_at,         \* the phase whose work was in flight at the session's first stop
    call             \* one call of a function on its own: its name, argument and result

run == <<seeds, amount, pc, i, p1, signed_results, p2, submit_results, results,
         faults, submit_calls, inverted, appended, delays>>

ctl == <<loop_task, stop_event, tasks, events, waiters, last_reply, stopped, prev_failed,
         stop_at>>

vars == <<run, ctl, call>>

IdleTask == [st |-> "idle", pk |-> NoPk, xdr |-> NoXdr, err |-> NoErr]

\* a coroutine that gather has wrapped in a task and that has not run yet
CreatedTask == [st |-> "created", pk |-> NoPk, xdr |-> NoXdr, err |-> NoErr]

BatchLo(off) == off + 1

BatchHi(off) == SliceEnd(off, Len(seeds))

BatchIdx(off) == BatchLo(off)..BatchHi(off)

BatchLen(off) == BatchHi(off) - off

\* Nothing has been requested yet.
Idle ==
    /\ seeds = <<>>
    /\ amount = 0
    /\ pc = "none"
    /\ i = 0
    /\ p1 = <<>>
    /\ signed_results = <<>>
    /\ p2 = <<>>
    /\ submit_results = <<>>
    /\ results = <<>>
    /\ faults = 0
    /\ submit_calls = <<>>
    /\ inverted = FALSE
    /\ appended = <<>>
    /\ delays = 0
    /\ loop_task = 0
    /\ stop_event = 0
    /\ tasks = <<>>
    /\ events = <<>>
    /\ waiters = {}
    /\ last_reply = "none"
    /\ stopped = {}
    /\ prev_failed = FALSE
    /\ stop_at = "none"

NoCall == [fn |-> "none"]

Init ==
    /\ Idle
    /\ call = NoCall

\* The for loop of process_all_seeds arrives at offset off of the seed list s,
\* with phase-1 tasks t1 so far. With a batch left, process_batch is called:
\* it creates the phase-1 coroutines of the batch and awaits gather, which
\* wraps them in tasks; none of them has run yet. With no batch left,
\* process_all_seeds returns results. `fresh` says that process_all_seeds
\* has just been entered.
ForHead(s, off, t1, fresh) ==
    IF off < Len(s)
    THEN /\ pc' = AfterFanOut(off).pc
         /\ i' = AfterFanOut(off).i
         /\ p1' = [k \in 1..Len(s) |->
                    IF k \in (off + 1)..SliceEnd(off, Len(s)) THEN CreatedTask ELSE t1[k]]
         /\ signed_results' = [j \in 1..(SliceEnd(off, Len(s)) - off) |-> PendingTriple]
         /\ p2' = <<>>
         /\ submit_results' = <<>>
         /\ inverted' = FALSE
    ELSE /\ pc' = "done"
         /\ i' = off
         /\ p1' = t1
         /\ IF fresh
            THEN /\ signed_results' = <<>>
                 /\ p2' = <<>>
                 /\ submit_results' = <<>>
                 /\ inverted' = FALSE
            ELSE UNCHANGED <<signed_results, p2, submit_results, inverted>>

\* process_all_seeds is entered: results = [], and the for loop runs to the
\* first await, the gather of the first batch (or returns, with no seeds).
\* The task table starts afresh: phase-1 tasks that an aborted batch of an
\* earlier call left running are no longer followed (they touch nothing shared).
EnterRun(s, amt) ==
    /\ seeds' = s
    /\ amount' = amt
    /\ results' = <<>>
    /\ faults' = 0
    /\ submit_calls' = [k \in 1..Len(s) |-> 0]
    /\ appended' = <<>>
    /\ delays' = 0
    /\ ForHead(s, 0, [k \in 1..Len(s) |-> IdleTask], TRUE)

\* POST /api/transfer
Transfer ==
    /\ pc = "none"
    /\ \E s \in SeedLists, amt \in Amounts : EnterRun(s, amt)
    /\ UNCHANGED <<ctl, call>>

\* First step of a phase-1 task: derive_keypair, then the balance query is issued.
FirstStep(seed) ==
    LET kp == derive_keypair(seed)
    IN  IF kp.raised
        THEN [st |-> "raised", pk |-> NoPk, xdr |-> NoXdr, err |-> "invalid seed"]
        ELSE [st |-> "checking", pk |-> kp.public_key, xdr |-> NoXdr, err |-> NoErr]

\* Some children of the gather that is awaited have taken their first step
\* and others have not: the event loop is running them, in the order of their
\* creation, and no other task or handler runs until the last has started.
Starting ==
    \/ /\ pc = "phase1"
       /\ \E k \in BatchIdx(i) : p1[k].st = "created"
       /\ \E k \in BatchIdx(i) : p1[k].st # "created"
    \/ /\ pc = "phase2"
       /\ \E j \in 1..Len(p2) : p2[j] = "created"
       /\ \E j \in 1..Len(p2) : p2[j] # "created"

\* The phase-1 task of seed k takes its first step.
StartPhase1(k) ==
    /\ pc = "phase1"
    /\ k \in BatchIdx(i)
    /\ p1[k].st = "created"
    /\ \A m \in BatchIdx(i) : m < k => p1[m].st # "created"
    /\ p1' = [p1 EXCEPT ![k] = FirstStep(seeds[k])]
    /\ UNCHANGED <<seeds, amount, pc, i, signed_results, p2, submit_results, results, faults,
                   submit_calls, inverted, appended, delays>>
    /\ UNCHANGED <<ctl, call>>

\* A phase-1 task ends with triple r; gather records it while it still waits.
FinishPhase1(k, r) ==
    /\ p1' = [p1 EXCEPT ![k] = [st |-> "done", pk |-> r.pk, xdr |-> r.xdr, err |-> r.err]]
    /\ IF pc = "phase1" /\ k \in BatchIdx(i)
       THEN /\ signed_results' = GatherPut(signed_results, k - i, r)
            /\ inverted' = (inverted \/ \E m \in BatchIdx(i) : m < k /\ p1[m].st \in {"checking", "building"})
       ELSE UNCHANGED <<signed_results, inverted>>

\* The balance query of task k returns.
BalanceReply(k) ==
    /\ ~Starting
    /\ p1[k].st = "checking"
    /\ \E reply \in BalanceReplies(p1[k].pk, MaxFaults - faults) :
        LET err == BalanceGate(reply, amount)
        IN  /\ faults' = IF reply.kind = "error" THEN faults + 1 ELSE faults
            /\ IF err # NoErr
               THEN FinishPhase1(k, Triple(p1[k].pk, NoXdr, err))
               ELSE /\ p1' = [p1 EXCEPT ![k].st = "building"]
                    /\ UNCHANGED <<signed_results, inverted>>
    /\ UNCHANGED <<seeds, amount, pc, i, p2, submit_results, results, submit_calls, appended, delays>>
    /\ UNCHANGED <<ctl, call>>

\* load_account and fetch_base_fee of task k return; the transaction is built and signed.
BuildReply(k) ==
    /\ ~Starting
    /\ p1[k].st = "building"
    /\ \E reply \in BuildReplies(MaxFaults - faults) :
        /\ faults' = IF reply # "ok" THEN faults + 1 ELSE faults
        /\ FinishPhase1(k, BuildResult(p1[k].pk, amount, reply))
    /\ UNCHANGED <<seeds, amount, pc, i, p2, submit_results, results, submit_calls, appended, delays>>
    /\ UNCHANGED <<ctl, call>>

Raised(off) == \E k \in BatchIdx(off) : p1[k].st = "raised"

\* Variant: the sleep is inside the try block, so a batch that raised goes
\* straight to the next iteration.
SleepsUnlessBatchFailed(off, batch_result) ==
    IF batch_result = BatchFailed(off)
    THEN [pc |-> "for", i |-> NextOffset(off)]
    ELSE [pc |-> "sleep", i |-> off]

\* line 106 follows the try statement: the sleep is awaited after every batch
AfterExtend(off, batch_result) == [pc |-> "sleep", i |-> off]

\* results.extend(batch_result), then the inter-batch sleep begins
ExtendResults(batch_result) ==
    /\ results' = results \o batch_result
    /\ appended' = Append(appended, [batch |-> BatchNumber(i), len |-> Len(batch_result)])
    /\ IF AfterExtend(i, batch_result).pc = "sleep"
       THEN /\ pc' = "sleep"
            /\ i' = AfterExtend(i, batch_result).i
            /\ UNCHANGED <<p1, signed_results, p2, submit_results, inverted>>
       ELSE ForHead(seeds, AfterExtend(i, batch_result).i, p1, FALSE)
    /\ UNCHANGED delays

\* A phase-1 task raised: gather raises in process_batch, process_all_seeds handles it.
Phase1Raise ==
    /\ pc = "phase1"
    /\ ~Starting
    /\ Raised(i)
    /\ IF CatchesBatchError(i)
       THEN ExtendResults(BatchFailed(i))
       ELSE /\ pc' = "raised"
            /\ UNCHANGED <<i, p1, signed_results, p2, submit_results, inverted, results,
                           appended, delays>>
    /\ UNCHANGED <<seeds, amount, faults, submit_calls>>
    /\ UNCHANGED <<ctl, call>>

\* gather returns signed_results; process_batch creates the phase-2 coroutines
\* and awaits the second gather, which wraps them in tasks; none has run yet.
Phase1Done ==
    /\ pc = "phase1"
    /\ ~Starting
    /\ ~Raised(i)
    /\ AllFilled(signed_results)
    /\ p2' = [j \in 1..Len(signed_results) |-> "created"]
    /\ submit_results' = [j \in 1..Len(signed_results) |-> "pending"]
    /\ pc' = "phase2"
    /\ UNCHANGED <<seeds, amount, i, p1, signed_results, results, faults, submit_calls,
                   inverted, appended, delays>>
    /\ UNCHANGED <<ctl, call>>

\* The phase-2 task at position j takes its first step: submit_transaction
\* issues its POST, asyncio.sleep(0) yields once.
StartPhase2(j) ==
    /\ pc = "phase2"
    /\ p2[j] = "created"
    /\ \A m \in 1..(j - 1) : p2[m] # "created"
    /\ p2' = [p2 EXCEPT ![j] = SubmitTaskKind(signed_results[j].xdr)]
    /\ submit_calls' = [submit_calls EXCEPT ![i + j] =
            IF SubmitTaskKind(signed_results[j].xdr) = "submitting" THEN @ + 1 ELSE @]
    /\ UNCHANGED <<seeds, amount, pc, i, p1, signed_results, submit_results, results, faults,
                   inverted, appended, delays>>
    /\ UNCHANGED <<ctl, call>>

FinishPhase2(j, r) ==
    /\ p2' = [p2 EXCEPT ![j] = "done"]
    /\ submit_results' = [submit_results EXCEPT ![j] = r]
    /\ inverted' = (inverted \/ \E m \in 1..(j - 1) : p2[m] # "done")

\* The POST of the task at position j returns.
SubmitReply(j) ==
    /\ pc = "phase2"
    /\ ~Starting
    /\ p2[j] = "submitting"
    /\ \E resp \in SubmitResponses(MaxFaults - faults) :
        /\ faults' = IF resp # OkResponse THEN faults + 1 ELSE faults
        /\ FinishPhase2(j, submit_transaction(resp))
    /\ UNCHANGED <<seeds, amount, pc, i, p1, signed_results, results, submit_calls, appended, delays>>
    /\ UNCHANGED <<ctl, call>>

\* asyncio.sleep(0) of the task at position j returns None.
SleepZeroDone(j) ==
    /\ pc = "phase2"
    /\ ~Starting
    /\ p2[j] = "sleeping"
    /\ FinishPhase2(j, "None")
    /\ UNCHANGED <<seeds, amount, pc, i, p1, signed_results, results, faults, submit_calls,
                   appended, delays>>
    /\ UNCHANGED <<ctl, call>>

\* The second gather returns; the results are merged, returned and appended.
Phase2Done ==
    /\ pc = "phase2"
    /\ ~Starting
    /\ AllSubmitted(p2)
    /\ ExtendResults(MergeResults(signed_results, submit_results))
    /\ UNCHANGED <<seeds, amount, faults, submit_calls>>
    /\ UNCHANGED <<ctl, call>>

\* asyncio.sleep(TRANSACTION_DELAY_SECONDS) returns; the for loop advances and
\* runs to the gather of the next batch, or process_all_seeds returns.
SleepDone ==
    /\ pc = "sleep"
    /\ delays' = delays + 1
    /\ ForHead(seeds, NextOffset(i), p1, FALSE)
    /\ UNCHANGED <<seeds, amount, results, faults, submit_calls, appended>>
    /\ UNCHANGED <<ctl, call>>

Phase1Start == \E k \in 1..Len(p1) : StartPhase1(k)

Phase1Step == \E k \in 1..Len(p1) : BalanceReply(k) \/ BuildReply(k)

Phase2Start == \E j \in 1..Len(p2) : StartPhase2(j)

Phase2Step == \E j \in 1..Len(p2) : SubmitReply(j) \/ SleepZeroDone(j)

RunStep ==
    \/ Phase1Start
    \/ Phase1Step
    \/ Phase1Raise
    \/ Phase1Done
    \/ Phase2Start
    \/ Phase2Step
    \/ Phase2Done
    \/ SleepDone

Next ==
    \/ Transfer
    \/ RunStep

Spec == Init /\ [][Next]_vars

\* ------------------------------------------------------- loop controller
Active == {t \in 1..Len(tasks) : tasks[t] = "running"}

\* Variant: the session counts as running until its event is set.
LoopTaskActiveByEvent == stop_event # 0 /\ ~events[stop_event]

\* line 51: loop_task and not loop_task.done()
LoopTaskActive == loop_task # 0 /\ tasks[loop_task] = "running"

\* Variant: stop_loop sets the event and returns without awaiting the task.
NeverAwaitsLoopTask == FALSE

\* line 63: if loop_task: await loop_task
AwaitsLoopTask == loop_task # 0

IsFailure(r) ==
    \/ r.tag # "Success"
    \/ r.msg # "Success: hash"

\* Variant: the event is created by the first start only and kept afterwards.
KeepsEvent(evs, ev) ==
    IF ev = 0
    THEN [events |-> Append(evs, FALSE), stop_event |-> Len(evs) + 1]
    ELSE [events |-> evs, stop_event |-> ev]

\* line 54: stop_event = asyncio.Event(), a new event that is not set
NewEvent(evs, ev) == [events |-> Append(evs, FALSE), stop_event |-> Len(evs) + 1]

\* POST /start
StartLoop ==
    /\ ~Starting
    /\ IF LoopTaskActive
       THEN /\ last_reply' = "Transfer already running."
            /\ UNCHANGED <<run, loop_task, stop_event, tasks, events, waiters, stopped, prev_failed,
                           stop_at, call>>
       ELSE /\ Len(tasks) < MaxSessions
            /\ \E s \in LoopSeedLists, amt \in LoopAmounts :
                   /\ seeds' = s
                   /\ amount' = amt
            /\ pc' = "check"
            /\ i' = 0
            /\ p1' = <<>>
            /\ signed_results' = <<>>
            /\ p2' = <<>>
            /\ submit_results' = <<>>
            /\ results' = <<>>
            /\ faults' = 0
            /\ submit_calls' = <<>>
            /\ inverted' = FALSE
            /\ appended' = <<>>
            /\ delays' = 0
            /\ events' = NewEvent(events, stop_event).events
            /\ stop_event' = NewEvent(events, stop_event).stop_event
            /\ tasks' = Append(tasks, "running")
            /\ loop_task' = Len(tasks) + 1
            /\ last_reply' = "Continuous transfer started."
            /\ prev_failed' = FALSE
            /\ stop_at' = "none"
            /\ UNCHANGED <<waiters, stopped, call>>

\* Work of the current batch that is in flight: phase-1 pipelines waiting for
\* the ledger, or submissions waiting for their reply.
InFlight ==
    \/ pc = "phase1" /\ \E k \in BatchIdx(i) : p1[k].st \in {"checking", "building"}
    \/ pc = "phase2" /\ \E j \in 1..Len(p2) : p2[j] = "submitting"

\* lines 63-65: awaiting a task that ended with an exception raises it again;
\* with no task (st = "none") or a task that returned, the message is returned
StopReply(st) ==
    IF st = "failed" THEN "Internal Server Error" ELSE "Transfer stopped."

\* Variant: stop_loop awaits the task without setting the event.
LeavesEventClear(evs, ev) == evs

\* line 61: stop_event.set()
SetEvent(evs, ev) == [evs EXCEPT ![ev] = TRUE]

\* POST /stop, up to its await or, when there is nothing to wait for, its return
StopLoop ==
    /\ ~Starting
    /\ stop_at' = IF LoopTaskActive /\ ~events[stop_event] /\ InFlight THEN pc ELSE stop_at
    /\ events' = IF stop_event # 0 THEN SetEvent(events, stop_event) ELSE events
    /\ IF AwaitsLoopTask /\ tasks[loop_task] = "running"
       THEN /\ waiters' = waiters \cup {loop_task}
            /\ UNCHANGED <<last_reply, stopped>>
       ELSE /\ last_reply' = StopReply(IF loop_task # 0 /\ AwaitsLoopTask
                                       THEN tasks[loop_task] ELSE "none")
            /\ stopped' = IF loop_task # 0 THEN stopped \cup {loop_task} ELSE stopped
            /\ UNCHANGED waiters
    /\ UNCHANGED <<run, loop_task, stop_event, tasks, prev_failed, call>>

\* The awaited loop task has ended: the suspended stop_loop resumes and returns.
StopResume ==
    \E t \in waiters :
        /\ ~Starting
        /\ tasks[t] # "running"
        /\ waiters' = waiters \ {t}
        /\ stopped' = stopped \cup {t}
        /\ last_reply' = StopReply(tasks[t])
        /\ UNCHANGED <<run, loop_task, stop_event, tasks, events, prev_failed, stop_at, call>>

\* loop_process_forever at its loop head: leave when the event is set, else
\* call process_all_seeds again with the same parameters.
LoopCheck ==
    /\ pc = "check"
    /\ \E t \in Active :
        IF events[t]
        THEN /\ tasks' = [tasks EXCEPT ![t] = "done"]
             /\ pc' = "none"
             /\ UNCHANGED <<seeds, amount, i, p1, signed_results, p2, submit_results,
                            results, faults, submit_calls, inverted, appended, delays>>
        ELSE /\ EnterRun(seeds, amount)
             /\ UNCHANGED tasks
    /\ UNCHANGED <<loop_task, stop_event, events, waiters, last_reply, stopped, prev_failed,
                   stop_at, call>>

\* process_all_seeds returned to loop_process_forever, or raised through it.
RoundEnd ==
    /\ pc \in {"done", "raised"}
    /\ \E t \in Active :
        IF pc = "raised"
        THEN /\ tasks' = [tasks EXCEPT ![t] = "failed"]
             /\ pc' = "none"
             /\ UNCHANGED prev_failed
        ELSE /\ pc' = "check"
             /\ prev_failed' = \E j \in 1..Len(results) : IsFailure(results[j])
             /\ UNCHANGED tasks
    /\ UNCHANGED <<seeds, amount, i, p1, signed_results, p2, submit_results, results,
                   faults, submit_calls, inverted, appended, delays>>
    /\ UNCHANGED <<loop_task, stop_event, events, waiters, last_reply, stopped, stop_at, call>>

NextLoop ==
    \/ StartLoop
    \/ StopLoop
    \/ StopResume
    \/ LoopCheck
    \/ RoundEnd
    \/ RunStep

SpecLoop == Init /\ [][NextLoop]_vars

\* The loop task ends with an exception. The body of loop_process_forever is
\* not part of the sources; the specification lets a session end by abnormal
\* termination as well as by stop (section 3, LoopSession). No error of a
\* round does this (process_all_seeds catches them), so the task fails at its
\* loop head, where its own code runs between two rounds.
LoopAbort ==
    /\ pc = "check"
    /\ \E t \in Active :
           tasks' = [tasks EXCEPT ![t] = "failed"]
    /\ pc' = "none"
    /\ UNCHANGED <<seeds, amount, i, p1, signed_results, p2, submit_results, results,
                   faults, submit_calls, inverted, appended, delays>>
    /\ UNCHANGED <<loop_task, stop_event, events, waiters, last_reply, stopped, prev_failed,
                   stop_at, call>>

NextLoopAbort ==
    \/ NextLoop
    \/ LoopAbort

\* The controller with a loop task that may end abnormally.
SpecLoopAbort == Init /\ [][NextLoopAbort]_vars

\* The event loop runs every task that is ready, and every request to the
\* ledger is answered: the run, the loop task and a resumed stop_loop each
\* take their next step. A stop_loop woken by the end of its task is in the
\* ready queue; it waits while the children of a gather take their first
\* steps and runs after them, hence the strong fairness.
SpecLoopFair ==
    /\ SpecLoop
    /\ WF_vars(RunStep)
    /\ WF_vars(LoopCheck)
    /\ WF_vars(RoundEnd)
    /\ SF_vars(StopResume)

\* ------------------------------------------- the functions on their own
Pending == "pending"

SubmitCalls == {[fn |-> "submit_transaction", arg |-> r, out |-> Pending] : r \in Responses}

\* Amounts of 0.1, 0.2, ... and those of the runs; for each, the balances
\* just below, at and just above amount + estimated_fee + MINIMUM_BALANCE,
\* an empty account and the ledger's balances.
GateAmounts == {k * (Pi \div 10) : k \in 1..MaxTenths} \cup Amounts

GateBalances(amt) ==
    {amt + estimated_fee + MINIMUM_BALANCE + d : d \in {-1, 0, 1}} \cup RunBalances

GateReplies(amt) ==
    {[kind |-> "ok", balance |-> b] : b \in GateBalances(amt)}
    \cup {[kind |-> "not_found", balance |-> 0], [kind |-> "error", balance |-> 0]}

GateCalls ==
    {[fn |-> "balance_gate", arg |-> [reply |-> r, amount |-> a], out |-> Pending] :
        <<a, r>> \in UNION {{<<a2, r2>> : r2 \in GateReplies(a2)} : a2 \in GateAmounts}}

\* the result of a split not yet made: the loop never yields an empty batch
NotSplit == <<<<>>>>

\* Seed lists of every length up to MaxBatchSeeds; a seed is named by its position.
BatchCalls ==
    {[fn |-> "batches", arg |-> [seeds |-> [k \in 1..n |-> k]], out |-> NotSplit] :
        n \in 0..MaxBatchSeeds}

\* the result of a computation not yet made: no amount is negative
NotComputed == -1

\* Amounts of 1, 2, ... units of 10^-7 and those of the gate.
NetAmounts == 1..MaxSmallUnits \cup GateAmounts

NetCalls == {[fn |-> "send_amount", arg |-> [amount |-> a], out |-> NotComputed] : a \in NetAmounts}

PureCalls == SubmitCalls \cup GateCalls \cup BatchCalls \cup NetCalls

InitPure ==
    /\ Idle
    /\ call \in PureCalls

ApplySubmit ==
    /\ call.fn = "submit_transaction"
    /\ call.out = Pending
    /\ call' = [call EXCEPT !.out = submit_transaction(call.arg)]
    /\ UNCHANGED <<run, ctl>>

\* lines 24-38 of create_signed_transaction on the answer of the balance query
ApplyGate ==
    /\ call.fn = "balance_gate"
    /\ call.out = Pending
    /\ call' = [call EXCEPT !.out = BalanceGate(call.arg.reply, call.arg.amount)]
    /\ UNCHANGED <<run, ctl>>

\* lines 99-100 of process_all_seeds: the batches the for loop hands out
ApplyBatches ==
    /\ call.fn = "batches"
    /\ call.out = NotSplit
    /\ call' = [call EXCEPT !.out = BatchesFrom(call.arg.seeds, 0)]
    /\ UNCHANGED <<run, ctl>>

\* lines 40-41 of create_signed_transaction: the amount the payment carries
ApplySendAmount ==
    /\ call.fn = "send_amount"
    /\ call.out = NotComputed
    /\ call' = [call EXCEPT !.out = SendAmount(call.arg.amount)]
    /\ UNCHANGED <<run, ctl>>

NextPure ==
    \/ ApplySubmit
    \/ ApplyGate
    \/ ApplyBatches
    \/ ApplySendAmount

SpecPure == InitPure /\ [][NextPure]_vars

\* ------------------------------------------------------------ properties
BatchOf(k) == (k - 1) \div batch_size + 1

BatchCount == (Len(seeds) + batch_size - 1) \div batch_size

SeedsOfBatch(n) == {k \in 1..Len(seeds) : BatchOf(k) = n}

RECURSIVE OffsetOf(_)
\* where the results of the n-th appended batch begin in results
OffsetOf(n) == IF n <= 1 THEN 0 ELSE OffsetOf(n - 1) + appended[n - 1].len

\* the n-th appended batch came back from process_batch (it was not replaced
\* by the synthetic batch failure)
Merged(n) == results[OffsetOf(n) + 1].tag # "Batch failed"

BuildAttempted(k) ==
    \/ p1[k].st = "building"
    \/ p1[k].st = "done" /\ p1[k].err \in {NoErr, "build error", ""}

\* C1: when process_all_seeds has returned for a non-empty seed list, results
\* has one entry per seed and entry k is the outcome of seed k (a result for
\* that seed's account, or a failure when the seed has no account).
C1_OneResultPerSeed ==
    (pc = "done" /\ Len(seeds) > 0) =>
        /\ Len(results) = Len(seeds)
        /\ \A k \in 1..Len(seeds) :
            IF ValidSeed(seeds[k])
            THEN /\ results[k].tag \in {"Error", "Success"}
                 /\ results[k].pk5 = Prefix5(PublicKey(seeds[k]))
            ELSE results[k].tag # "Success"

\* C2: a per-account error stays with its seed: when the run has returned,
\* every seed that is a well-formed credential has finished its own phase-1
\* pipeline, was submitted if it was built, and has its own result at its
\* position, whatever happened to the other seeds of its batch.
C2_ErrorsStayWithTheirSeed ==
    pc = "done" =>
        \A k \in 1..Len(seeds) :
            ValidSeed(seeds[k]) =>
                /\ p1[k].st = "done"
                /\ p1[k].xdr # NoXdr => submit_calls[k] >= 1
                /\ k <= Len(results)
                /\ results[k].tag \in {"Error", "Success"}
                /\ results[k].pk5 = Prefix5(PublicKey(seeds[k]))

\* C3: at most one loop task is active at any time; a task and an event are
\* created only while no task is active, and a start answered while a task is
\* active answers "already running" and leaves tasks and events as they are.
C3_OneActiveSession ==
    /\ [](Cardinality(Active) <= 1)
    /\ [][(Len(tasks') > Len(tasks) \/ Len(events') > Len(events)) => Active = {}]_vars
    /\ [][(Active # {} /\ last_reply' # last_reply
            /\ last_reply' \in {"Transfer already running.", "Continuous transfer started."})
          => (last_reply' = "Transfer already running."
              /\ tasks' = tasks /\ events' = events /\ UNCHANGED run)]_vars

\* C3 witness: a start was answered "already running" while the session's
\* round was in flight.
C3_Witness ==
    /\ last_reply = "Transfer already running."
    /\ Cardinality(Active) = 1
    /\ pc \in {"phase1", "phase2"}

\* C4: once a stop_loop has returned for a session, that session's loop task
\* has exited, and with no active task no round is at any position.
C4_StoppedMeansExited ==
    /\ \A t \in stopped : tasks[t] # "running"
    /\ Active = {} => pc = "none"

\* C4 witness: a stop has returned for a session that had run a batch.
C4_Witness ==
    /\ \E t \in stopped : tasks[t] = "done"
    /\ last_reply = "Transfer stopped."
    /\ Len(results) > 0

\* C5: whatever the order in which the tasks of a batch finish, slot j of
\* gather's result belongs to seed j of the batch, and the merged results of
\* a batch are in the order of its seeds.
C5_ResultOrderIsSeedOrder ==
    /\ pc \in {"phase1", "phase2"} =>
            \A j \in 1..Len(signed_results) :
                signed_results[j].filled => signed_results[j].pk = PublicKey(seeds[i + j])
    /\ \A n \in 1..Len(appended) :
            Merged(n) =>
                \A k \in SeedsOfBatch(appended[n].batch) :
                    LET j == k - (appended[n].batch - 1) * batch_size
                    IN  /\ j <= appended[n].len
                        /\ results[OffsetOf(n) + j].pk5 = Prefix5(PublicKey(seeds[k]))

\* C5 witness: a batch of different accounts was merged after some task
\* finished before a task of an earlier seed.
C5_Witness ==
    /\ pc = "sleep"
    /\ inverted
    /\ Len(signed_results) >= 2
    /\ signed_results[1].pk # signed_results[2].pk
    /\ Merged(Len(appended))

\* C6: a task of batch N+1 exists only after the results of batches 1..N
\* were appended, phase 2 runs only for the batch after the appended ones,
\* and batches are appended in increasing index 1, 2, 3, ...
C6_BatchesInSequence ==
    /\ \A k \in 1..Len(p1) : p1[k].st # "idle" => Len(appended) >= BatchOf(k) - 1
    /\ pc \in {"phase1", "phase2"} => Len(appended) = i \div batch_size
    /\ \A n \in 1..Len(appended) : appended[n].batch = n

\* C6 witness: the second batch is in phase 1 after the first was appended.
C6_Witness ==
    /\ pc = "phase1"
    /\ i = batch_size
    /\ Len(appended) = 1
    /\ \E k \in 1..Len(p1) : BatchOf(k) = 2 /\ p1[k].st = "building"

\* C7: a seed whose phase 1 ended in a failure is never posted to the
\* submission endpoint, and where its batch was merged its result is that
\* phase-1 failure.
C7_FailedSeedNotSubmitted ==
    /\ \A k \in 1..Len(p1) :
            (p1[k].st = "done" /\ p1[k].err # NoErr) => submit_calls[k] = 0
    /\ \A n \in 1..Len(appended) :
            Merged(n) =>
                \A k \in SeedsOfBatch(appended[n].batch) :
                    p1[k].err # NoErr =>
                        LET r == results[OffsetOf(n) + k - (appended[n].batch - 1) * batch_size]
                        IN  r.tag = "Error" /\ r.msg = p1[k].err /\ r.pk5 = Prefix5(p1[k].pk)

\* C8: a batch that raised is recorded as exactly one result, tagged with
\* that batch's 1-based index; the run never ends by that error, and when it
\* returns every batch has been processed.
C8_BatchErrorIsOneTaggedResult ==
    /\ pc # "raised"
    /\ \A n \in 1..Len(appended) :
            (\E k \in SeedsOfBatch(n) : ~ValidSeed(seeds[k])) =>
                /\ appended[n].len = 1
                /\ results[OffsetOf(n) + 1].tag = "Batch failed"
                /\ results[OffsetOf(n) + 1].n = n
    /\ pc = "done" => Len(appended) = BatchCount

\* C8 witness: the first batch raised, the second was processed and the run
\* returned.
C8_Witness ==
    /\ pc = "done"
    /\ Len(appended) = 2
    /\ results[1].tag = "Batch failed"
    /\ results[1].n = 1
    /\ Len(results) >= 2
    /\ results[2].tag = "Success"

\* C9: a loop task leaves the running state only with its stop event set and
\* only by returning, never by an error of a round; at the loop head with the
\* event unset it starts another round.
C9_OnlyStopEndsTheLoop ==
    /\ [](\A t \in 1..Len(tasks) : tasks[t] # "failed")
    /\ [][\A t \in 1..Len(tasks) :
            (tasks[t] = "running" /\ tasks'[t] # "running") =>
                (events[t] /\ tasks'[t] = "done")]_vars
    /\ [][(pc = "check" /\ pc' # "check" /\ \E t \in Active : ~events[t])
           => pc' = "phase1"]_vars

\* C9 witness: after a round that reported a failure, the same session is
\* in a new round.
C9_Witness ==
    /\ prev_failed
    /\ Active # {}
    /\ pc = "phase1"
    /\ \E t \in Active : ~events[t]

\* C10: within one batch no two pipelines make a build attempt (read the
\* sequence number and build) for the same account.
C10_OneBuildAttemptPerAccount ==
    \A k, m \in 1..Len(p1) :
        (k # m /\ BatchOf(k) = BatchOf(m) /\ BuildAttempted(k) /\ BuildAttempted(m))
            => p1[k].pk # p1[m].pk

\* C11: every signed transaction built in phase 1 is posted exactly once: no
\* seed's transaction is posted twice, and once the run has returned every
\* transaction that was built has been posted.
C11_BuiltIsSubmittedOnce ==
    /\ \A k \in 1..Len(submit_calls) : submit_calls[k] <= 1
    /\ pc = "done" =>
            \A k \in 1..Len(p1) :
                (p1[k].st = "done" /\ p1[k].xdr # NoXdr) => submit_calls[k] = 1

\* C12: a stop aborts nothing. The steps of stop_loop (setting the event,
\* suspending, resuming) change no pipeline, no submission and no task; a
\* phase-1 pipeline or a submission in flight stays in flight or completes in
\* every step other than the start of a new round or session; no round starts
\* once the event is set; and when the loop task has exited, every batch of
\* its last round was appended with all its submissions returned.
C12_StopAbortsNothing ==
    /\ [][((\E t \in 1..Len(events) : events'[t] # events[t])
            \/ waiters' # waiters \/ stopped' # stopped)
          => (UNCHANGED run /\ tasks' = tasks)]_vars
    /\ [][(stop_event' = stop_event /\ ~(pc = "check" /\ pc' = "phase1")) =>
            /\ \A k \in 1..Len(p1) :
                p1[k].st \in {"checking", "building"} =>
                    /\ Len(p1') = Len(p1)
                    /\ p1'[k].st \in {"checking", "building", "done"}
            /\ \A j \in 1..Len(p2) :
                p2[j] = "submitting" =>
                    /\ Len(p2') = Len(p2)
                    /\ p2'[j] \in {"submitting", "done"}]_vars
    /\ [][(pc = "check" /\ pc' = "phase1") => \E t \in Active : ~events[t]]_vars
    /\ []((Len(tasks) > 0 /\ tasks[Len(tasks)] = "done") =>
            /\ pc = "none"
            /\ \A j \in 1..Len(p2) : p2[j] = "done" /\ submit_results[j] # "pending"
            /\ p1 # <<>> => Len(appended) = BatchCount
            /\ \A n \in 1..Len(appended) :
                Merged(n) => \A k \in SeedsOfBatch(n) : p1[k].st = "done")

\* C12 witness: the stop arrived while a submission was in flight, the
\* submission was answered, its batch was merged and the round finished
\* before the loop task exited and the stop returned.
C12_Witness ==
    /\ stop_at = "phase2"
    /\ loop_task \in stopped
    /\ tasks[loop_task] = "done"
    /\ Len(appended) = BatchCount
    /\ \E k \in 1..Len(results) : results[k].msg = "Success: hash"

\* C13: submit_transaction answers with a success message exactly when the
\* POST was answered with status 200 and a parseable body that holds a hash;
\* every other answer (200 without a hash, another status, an unparseable
\* body, a transport error) gets a failure message.
C13_SuccessNeedsTheHash ==
    (call.fn = "submit_transaction" /\ call.out # Pending) =>
        (IsSuccessMessage(call.out)
            <=> (/\ call.arg.kind = "reply"
                 /\ call.arg.status = 200
                 /\ call.arg.parseable
                 /\ call.arg.has_hash))

\* C14: the balance gate lets a seed go on exactly when its balance is at
\* least amount + estimated_fee + MINIMUM_BALANCE and otherwise reports an
\* insufficient balance; an account that does not exist is reported as not
\* found, any other error of the query as a failed check.
C14_GateIsExact ==
    (call.fn = "balance_gate" /\ call.out # Pending) =>
        LET reply == call.arg.reply
            enough == reply.balance >= call.arg.amount + estimated_fee + MINIMUM_BALANCE
        IN  /\ reply.kind = "ok" =>
                call.out = (IF enough THEN NoErr ELSE "Insufficient balance")
            /\ reply.kind = "not_found" => call.out = "Account not found"
            /\ reply.kind = "error" => call.out = "Error checking balance"

RECURSIVE Concat(_)
Concat(b) == IF b = <<>> THEN <<>> ELSE Head(b) \o Concat(Tail(b))

\* C15: the for loop of process_all_seeds splits n seeds into ceil(n/6)
\* batches, each of 6 seeds except the last, which holds the remaining 1..6;
\* the batches joined in order are the seed list, so every seed is in exactly
\* one batch; 14 seeds give batches of 6, 6 and 2.
C15_BatchesPartitionTheSeeds ==
    (call.fn = "batches" /\ call.out # NotSplit) =>
        LET s == call.arg.seeds
            b == call.out
            n == Len(s)
        IN  /\ Len(b) = (n + batch_size - 1) \div batch_size
            /\ \A m \in 1..(Len(b) - 1) : Len(b[m]) = batch_size
            /\ n > 0 => /\ Len(b[Len(b)]) = n - batch_size * (Len(b) - 1)
                        /\ Len(b[Len(b)]) \in 1..batch_size
            /\ Concat(b) = s
            /\ \A k \in 1..n :
                 Cardinality({m \in 1..Len(b) : \E j \in 1..Len(b[m]) : b[m][j] = s[k]}) = 1
            /\ n = 14 => [m \in 1..Len(b) |-> Len(b[m])] = <<6, 6, 2>>

C15_Witness ==
    /\ call.fn = "batches"
    /\ call.out # NotSplit
    /\ Len(call.arg.seeds) = 14
    /\ Len(call.out) = 3

\* C16: for every positive amount, in units of 10^-7, the amount the payment
\* carries, round(amount - amount * FEE_PERCENT, 7), is strictly less than
\* the requested amount.
C16_NetIsLessThanRequested ==
    (call.fn = "send_amount" /\ call.out # NotComputed) => call.out < call.arg.amount

\* C17: the inter-batch sleep is taken exactly once after every batch whose
\* results were appended and before the next batch starts, whether the batch
\* returned its results or ended in a batch-level error: while batch N+1 runs,
\* N batches have been appended and N sleeps have returned; while the sleep
\* after batch N is awaited, N batches have been appended and N-1 sleeps have
\* returned.
C17_OneDelayBetweenBatches ==
    /\ pc = "done" => delays = Len(appended)
    /\ pc \in {"phase1", "phase2"} =>
          /\ delays = Len(appended)
          /\ BatchNumber(i) = delays + 1
    /\ pc = "sleep" =>
          /\ delays = Len(appended) - 1
          /\ BatchNumber(i) = Len(appended)

\* the second batch runs after a first batch that ended in a batch-level error
C17_Witness ==
    /\ pc = "phase1"
    /\ Len(appended) = 1
    /\ results[1].tag = "Batch failed"
    /\ delays = 1
    /\ \E k \in BatchIdx(i) : p1[k].st = "checking"

\* C18: under fair scheduling and with every ledger request answered, a
\* stop_loop that waits for the running loop task eventually returns; the
\* loop task, once a stop waits for it, leaves at its next round boundary
\* instead of starting another round.
C18_StopEventuallyReturns ==
    /\ \A t \in 1..MaxSessions : (t \in waiters) ~> (t \in stopped)
    /\ [][\A t \in waiters :
            (pc = "check" /\ pc' # "check" /\ tasks[t] = "running")
                => (pc' = "none" /\ tasks'[t] = "done")]_vars

\* a stop that arrived while phase 1 of a round was in flight has returned
C18_Witness ==
    /\ stop_at = "phase1"
    /\ loop_task \in stopped
    /\ waiters = {}
    /\ tasks[loop_task] = "done"
    /\ last_reply = "Transfer stopped."
    /\ pc = "none"

\* C19: a stop_loop that finds no running loop task (none was ever started,
\* the last one has returned, or the last one ended with an exception)
\* returns "Transfer stopped." without waiting and without an error, and
\* leaves the run, the tasks, the events and the globals as they were.
C19_IdleStopIsNoOp ==
    [][(Active = {} /\ StopLoop) =>
          /\ last_reply' = "Transfer stopped."
          /\ UNCHANGED <<run, loop_task, stop_event, tasks, events, waiters>>]_vars

\* C20: a result of the run is a Success result ("Success for ...") only if
\* the submission of its seed was answered with status 200 and a hash; a seed
\* whose transaction was built and whose submission was rejected, failed in
\* transport or was answered incompletely has a failure result.
C20_SuccessResultNeedsAcceptedSubmission ==
    \A k \in 1..Len(results) :
        results[k].tag = "Success" => results[k].msg = "Success: hash"

\* C21: within a batch no submission is issued before every phase-1 pipeline
\* of that batch has finished: while phase 2 of a batch runs, and for every
\* seed whose transaction has been posted, all pipelines of that seed's batch
\* are done.
C21_Phase2AfterAllOfPhase1 ==
    /\ pc = "phase2" => \A k \in BatchIdx(i) : p1[k].st = "done"
    /\ \A k \in 1..Len(submit_calls) :
          submit_calls[k] > 0 => \A m \in SeedsOfBatch(BatchOf(k)) : p1[m].st = "done"

\* phase 2 of a batch in which one seed failed in phase 1 and another was
\* built and is being submitted
C21_Witness ==
    /\ pc = "phase2"
    /\ \E j \in 1..Len(p2) : p2[j] = "submitting" /\ submit_calls[i + j] = 1
    /\ \E j \in 1..Len(p2) : p2[j] = "sleeping"
    /\ \A k \in BatchIdx(i) : p1[k].st = "done"

\* C22: a start that finds no running loop task creates a new task and a new
\* event that is not set, and leaves the earlier events as they are; an event
\* becomes set only by a stop_loop issued while it is the current event, so a
\* running session whose event is set has its own stop waiting for it, and a
\* loop task ends only with its own event set.
C22_NewSessionHasItsOwnSignal ==
    /\ []((LoopTaskActive /\ events[stop_event]) => loop_task \in waiters)
    /\ [][(loop_task' # loop_task) =>
            /\ ~LoopTaskActive
            /\ loop_task' = Len(tasks) + 1
            /\ tasks' = Append(tasks, "running")
            /\ stop_event' = Len(events) + 1
            /\ events' = Append(events, FALSE)]_vars
    /\ [][\A t \in 1..Len(events) :
            (~events[t] /\ events'[t]) => (stop_event = t /\ StopLoop)]_vars
    /\ [][\A t \in 1..Len(tasks) :
            (tasks[t] = "running" /\ tasks'[t] # "running") => events[t]]_vars

\* after start, stop, start: the first session was stopped and its event is
\* set, the second session runs a round with its own event not set
C22_Witness ==
    /\ Len(tasks) = 2
    /\ tasks[1] = "done"
    /\ 1 \in stopped
    /\ events[1]
    /\ loop_task = 2
    /\ stop_event = 2
    /\ tasks[2] = "running"
    /\ ~events[2]
    /\ pc = "phase1"

====
